---- MODULE Spec2Model ----
(***************************************************************************)
(* Model of app/main.py of gunjou/cdn-private: the upload handler          *)
(* upload_image with its helpers sanitize_segment and compress_image.      *)
(*                                                                         *)
(* Strings are sequences of one-character strings, so that split, lower,   *)
(* replace and isalnum are computed character by character.  The only      *)
(* multi-character atoms are the uuid tokens, which stand for the 36       *)
(* characters of str(uuid.uuid4()) (hex digits and '-'), and the two       *)
(* characters beyond Latin-1, which are written by their code point.       *)
(***************************************************************************)
EXTENDS Integers, Sequences, FiniteSets, TLC

\* ------------------------------------------------------------------------
\* Bounds of the model
\* ------------------------------------------------------------------------

\* longest segment enumerated for sanitize_segment
MaxSegLen == 3
\* longest filename hint enumerated for the extension derivation
MaxNameLen == 4
\* largest encoded size (in bytes) of an image at one quality level
MaxEncSize == 2
\* number of seconds the wall clock may advance during a run
MaxClock == 2

\* ------------------------------------------------------------------------
\* Characters and strings
\* ------------------------------------------------------------------------

LowerLetters ==
    <<"a","b","c","d","e","f","g","h","i","j","k","l","m",
      "n","o","p","q","r","s","t","u","v","w","x","y","z">>

UpperLetters ==
    <<"A","B","C","D","E","F","G","H","I","J","K","L","M",
      "N","O","P","Q","R","S","T","U","V","W","X","Y","Z">>

Digits == <<"0","1","2","3","4","5","6","7","8","9">>

Range(s) == {s[i] : i \in DOMAIN s}

\* the uuid tokens a request may draw
Tokens == {"uuid-A", "uuid-B"}

\* Characters outside ASCII.  Python's str methods work on Unicode: a path
\* parameter or a filename may carry any of these.
\*   letters (categories Ll, Lu): isalpha() is True
OtherLowerLetters == <<"é", "ø">>
OtherUpperLetters == <<"É", "Ø">>
\*   U+00DF, a lower-case letter without an upper-case partner
SharpS == "ß"
\*   U+0130, an upper-case letter whose lower() is 'i' followed by U+0307
\*   (characters beyond Latin-1 are written by their code point)
DottedI == "U+0130"
\*   U+0307, a combining mark (category Mn): not alphanumeric
CombiningDot == "U+0307"
\*   numerics that are no decimal digits (category No): isdigit() or
\*   isnumeric() is True
OtherNumerics == {"²", "½"}

OtherLetters ==
    Range(OtherLowerLetters) \cup Range(OtherUpperLetters) \cup {SharpS, DottedI}

\* str.isalnum() on one character: isalpha(), isdecimal(), isdigit() or
\* isnumeric().  Every character the model uses outside these sets (ASCII
\* punctuation, the space, U+0307) is one isalnum() refuses.
IsAlnumChar(c) ==
    c \in Range(LowerLetters) \cup Range(UpperLetters) \cup Range(Digits)
          \cup OtherLetters \cup OtherNumerics

\* str.isalnum(): every character alphanumeric AND at least one character
isalnum(s) == Len(s) > 0 /\ \A i \in 1..Len(s) : IsAlnumChar(s[i])

\* str.replace(c, "") for a one-character c
RemoveChar(s, c) == SelectSeq(s, LAMBDA x : x # c)

\* str.lower() on one character: a string, of two characters for U+0130
LowerChar(c) ==
    IF c \in Range(UpperLetters)
    THEN <<LowerLetters[CHOOSE i \in 1..26 : UpperLetters[i] = c]>>
    ELSE IF c \in Range(OtherUpperLetters)
    THEN <<OtherLowerLetters[CHOOSE i \in DOMAIN OtherUpperLetters :
                                OtherUpperLetters[i] = c]>>
    ELSE IF c = DottedI THEN <<"i", CombiningDot>>
    ELSE <<c>>

\* str.lower(): the lower-cased characters, in order
RECURSIVE lower(_)
lower(s) == IF s = <<>> THEN <<>> ELSE LowerChar(Head(s)) \o lower(Tail(s))

\* "." in s
HasDot(s) == \E i \in 1..Len(s) : s[i] = "."

\* s.split(".")[-1]: what follows the last '.', the whole string if none
SplitLast(s) ==
    IF HasDot(s)
    THEN LET k == CHOOSE i \in 1..Len(s) :
                      s[i] = "." /\ \A j \in (i+1)..Len(s) : s[j] # "."
         IN SubSeq(s, k + 1, Len(s))
    ELSE s

\* all sequences over A of length at most n
RECURSIVE SeqsUpTo(_, _)
SeqsUpTo(A, n) ==
    IF n = 0 THEN {<<>>}
    ELSE LET shorter == SeqsUpTo(A, n - 1)
         IN shorter \cup {Append(s, c) : s \in {t \in shorter : Len(t) = n - 1}, c \in A}

\* ------------------------------------------------------------------------
\* sanitize_segment (main.py 49-52)
\* ------------------------------------------------------------------------

\* a faulty variant: the non-emptiness that isalnum() demands is forgotten
sanitize_segment_AllChars(value) ==
    [raised |-> ~(\A i \in 1..Len(value) :
                     IsAlnumChar(value[i]) \/ value[i] \in {"_", "-"}),
     result |-> value]

\* a faulty variant: '-' is not removed before isalnum()
sanitize_segment_NoHyphen(value) ==
    [raised |-> ~isalnum(RemoveChar(value, "_")), result |-> value]

\* raised: HTTPException(400, "Invalid folder name"); otherwise result is
\* the value returned
sanitize_segment(value) ==
    [raised |-> ~isalnum(RemoveChar(RemoveChar(value, "_"), "-")),
     result |-> value]

sanitize_ok(value) == ~sanitize_segment(value).raised

\* ------------------------------------------------------------------------
\* Configuration (main.py 21-43)
\* ------------------------------------------------------------------------

\* Optional[str]: None, or a string
None == [isNone |-> TRUE, s |-> <<>>]
Str(s) == [isNone |-> FALSE, s |-> s]

\* Python truthiness of an Optional[str]: None and "" are falsy
Falsy(v) == v.isNone \/ v.s = <<>>

ukaisyndrome == <<"u","k","a","i","s","y","n","d","r","o","m","e">>
absensi_berkah == <<"a","b","s","e","n","s","i","-","b","e","r","k","a","h">>

tryout == <<"t","r","y","o","u","t">>
materi == <<"m","a","t","e","r","i">>
wajah == <<"w","a","j","a","h">>
sakit == <<"s","a","k","i","t">>
izin == <<"i","z","i","n">>
lembur == <<"l","e","m","b","u","r">>

\* the keys of the three per-service dicts
Services == {ukaisyndrome, absensi_berkah}

\* BASE_DIR = os.getenv("CDN_BASE_DIR"); StaticFiles(directory=BASE_DIR)
\* refuses to start unless it is an existing directory
BASE_DIR == <<"/","c","d","n">>

\* KB -> bytes
KB == 1024

ALLOWED_CATEGORIES ==
    [svc \in Services |->
        IF svc = ukaisyndrome THEN {tryout, materi}
        ELSE {wajah, sakit, izin, lembur}]

\* ALLOWED_CATEGORIES.get(service_name, [])
CategoriesOf(service_name) ==
    IF service_name \in DOMAIN ALLOWED_CATEGORIES
    THEN ALLOWED_CATEGORIES[service_name] ELSE {}

\* values of the environment the model draws its configuration from
KeyOne == <<"k","1">>
KeyTwo == <<"k","2">>
KeyBad == <<"b","a","d">>
UrlOne == <<"h",":","/","/","c","1">>
UrlTwo == <<"h",":","/","/","c","2">>

VARIABLES
    ALLOWED_KEYS,   \* service -> Optional[str], from API_KEY_* of the environment
    CDN_URL_MAP,    \* service -> Optional[str], from CDN_URL_* of the environment
    MAX_SIZE,       \* int(os.getenv("MAX_UPLOAD_SIZE", 500)) * 1024
    clock,          \* seconds the wall clock has advanced
    dirs,           \* the directories of the filesystem (component sequences)
    files,          \* the regular files of the filesystem: path -> content
    pc,             \* request -> position in upload_image
    req,            \* request -> its parameters and locals
    seg,            \* sanitize_segment alone: the argument
    segOut,         \* sanitize_segment alone: the outcome of the call
    enc             \* compress_image alone: the locals of one call

vars == <<ALLOWED_KEYS, CDN_URL_MAP, MAX_SIZE, clock, dirs, files, pc, req,
          seg, segOut, enc>>


\* ------------------------------------------------------------------------
\* Uploaded payloads and compress_image (main.py 55-71)
\* ------------------------------------------------------------------------

\* the quality levels an image has an encoding for in the model
LadderLevels == {45 + 5 * i : i \in 0..8}

\* sizes (in bytes) an encoding may have: at the budget of 1 KB and above it
EncSizes == {KB + d - 1 : d \in 1..MaxEncSize}

\* the budgets MAX_SIZE the environment may configure (MAX_UPLOAD_SIZE 0 or 1)
Budgets == {0, KB}

\* An uploaded payload: whether Image.open identifies it (it reads the
\* header only), whether its pixel data then loads (a truncated or corrupt
\* body does not), the mode it decodes to, its length, and the size of its
\* JPEG encoding at each quality level.  A payload stands for its own bytes.
Payload(decodable, intact, mode, len, sizes) ==
    [decodable |-> decodable, intact |-> intact, mode |-> mode, len |-> len,
     sizes |-> sizes]

\* the bytes of a file or of a response body part
NoBytes == [kind |-> "none", src |-> <<>>, mode |-> "", quality |-> 0, size |-> 0]
RawBytes(p) == [kind |-> "raw", src |-> p, mode |-> "", quality |-> 0, size |-> p.len]

\* the modes Pillow's JPEG writer has a raw mode for
JPEGModes == {"1", "L", "RGB", "RGBX", "CMYK", "YCbCr"}

\* img.save(buffer, format="JPEG", optimize=True, quality=quality): the
\* encoding, or kind "OSError" when save raises: it loads the pixel data
\* first ("image file is truncated"), and the JPEG writer refuses a mode it
\* has no raw mode for ("cannot write mode LA as JPEG")
SaveJPEG(p, mode, quality) ==
    IF ~p.intact \/ mode \notin JPEGModes
    THEN [kind |-> "OSError", src |-> p, mode |-> mode, quality |-> quality,
          size |-> 0]
    ELSE [kind |-> "jpeg", src |-> p, mode |-> mode, quality |-> quality,
          size |-> IF quality \in DOMAIN p.sizes THEN p.sizes[quality]
                   ELSE p.sizes[45]]

\* faulty variant: the loop runs once more
LoopCond_Geq(quality) == quality >= 40

\* while quality > 40
LoopCond(quality) == quality > 40

\* if buffer.tell() <= MAX_SIZE
Fits(size, max_size) == size <= max_size

\* if img.mode in ("RGBA", "P"): img = img.convert("RGB")
NormMode(mode) == IF mode \in {"RGBA", "P"} THEN "RGB" ELSE mode

\* the locals of compress_image before it is called
EncIdle(image_bytes) ==
    [pc |-> "call", image_bytes |-> image_bytes, mode |-> "", quality |-> 0,
     buffer |-> NoBytes, tried |-> <<>>, result |-> NoBytes, exc |-> ""]

\* lines 56-61: Image.open raises on bytes that are no image; convert
\* loads the pixel data and raises when they are truncated
EncStart(l) ==
    IF ~l.image_bytes.decodable
    THEN [l EXCEPT !.pc = "raised", !.exc = "UnidentifiedImageError"]
    ELSE IF l.image_bytes.mode \in {"RGBA", "P"} /\ ~l.image_bytes.intact
    THEN [l EXCEPT !.pc = "raised", !.exc = "OSError"]
    ELSE [l EXCEPT !.pc = "loop", !.mode = NormMode(l.image_bytes.mode),
                   !.quality = 85]

\* lines 62-71: one test of the loop condition and, if it holds, one
\* iteration; `tried` records the qualities img.save was called with so
\* far.  An exception of img.save leaves the function: nothing catches it.
EncStep(l, max_size) ==
    IF LoopCond(l.quality)
    THEN LET b == SaveJPEG(l.image_bytes, l.mode, l.quality)
         IN IF b.kind = "OSError"
            THEN [l EXCEPT !.pc = "raised", !.exc = "OSError",
                           !.tried = Append(@, l.quality)]
            ELSE IF Fits(b.size, max_size)
            THEN [l EXCEPT !.pc = "returned", !.buffer = b, !.result = b,
                           !.tried = Append(@, l.quality)]
            ELSE [l EXCEPT !.buffer = b, !.quality = @ - 5,
                           !.tried = Append(@, l.quality)]
    ELSE [l EXCEPT !.pc = "returned", !.result = l.buffer]

RECURSIVE EncRun(_, _)
EncRun(l, max_size) ==
    IF l.pc # "loop" THEN l ELSE EncRun(EncStep(l, max_size), max_size)

\* compress_image(image_bytes): the locals when the call ends
\* (pc "returned" with result, or pc "raised")
compress_image(image_bytes, max_size) ==
    EncRun(EncStart(EncIdle(image_bytes)), max_size)


\* ------------------------------------------------------------------------
\* Clock, formatting and paths
\* ------------------------------------------------------------------------

\* datetime.now() after the clock has advanced t seconds from
\* 2026-12-31 23:59:59 (local time)
Now(t) ==
    IF t = 0
    THEN [year |-> 2026, month |-> 12, day |-> 31, hour |-> 23, minute |-> 59, second |-> 59]
    ELSE [year |-> 2027, month |-> 1, day |-> 1,
          hour |-> ((t - 1) \div 3600) % 24,
          minute |-> ((t - 1) \div 60) % 60,
          second |-> (t - 1) % 60]

Digit(n) == Digits[n + 1]

\* str(n) for n >= 0, as an f-string formats it
RECURSIVE ToStr(_)
ToStr(n) == IF n < 10 THEN <<Digit(n)>> ELSE Append(ToStr(n \div 10), Digit(n % 10))

\* %m, %d, %H, %M, %S: two digits, zero padded
Pad2(n) == <<Digit((n \div 10) % 10), Digit(n % 10)>>

\* %Y: four digits, zero padded
Pad4(n) == Pad2(n \div 100) \o Pad2(n % 100)

\* now.strftime("%Y%m%d_%H%M%S")
strftime(now) ==
    Pad4(now.year) \o Pad2(now.month) \o Pad2(now.day) \o <<"_">> \o
    Pad2(now.hour) \o Pad2(now.minute) \o Pad2(now.second)

\* f"{BASE_DIR}/{service_name}/{year}/{category}/"
Folder(service_name, year, category) ==
    BASE_DIR \o <<"/">> \o service_name \o <<"/">> \o ToStr(year) \o <<"/">> \o
    category \o <<"/">>

\* faulty variant: what follows the FIRST '.' of the filename
Ext_AfterFirstDot(filename) ==
    IF HasDot(filename)
    THEN LET k == CHOOSE i \in 1..Len(filename) :
                      filename[i] = "." /\ \A j \in 1..(i-1) : filename[j] # "."
         IN lower(SubSeq(filename, k + 1, Len(filename)))
    ELSE <<"j","p","g">>

\* faulty variant: a filename without '.' is not taken for an image
Ext_NoDefault(filename) == IF HasDot(filename) THEN lower(SplitLast(filename)) ELSE <<>>

\* file.filename.split(".")[-1].lower() if "." in file.filename else "jpg"
Ext(filename) ==
    IF HasDot(filename) THEN lower(SplitLast(filename)) ELSE <<"j","p","g">>

\* ["jpg", "jpeg", "png"]
ImageExts == {<<"j","p","g">>, <<"j","p","e","g">>, <<"p","n","g">>}

\* faulty variant: the filename carries no token
Unique_NoToken(timestamp, token, final_ext) ==
    timestamp \o <<".">> \o final_ext

\* f"{timestamp}_{uuid.uuid4()}.{final_ext}"
Unique(timestamp, token, final_ext) ==
    timestamp \o <<"_", token, ".">> \o final_ext

\* os.path.join(a, b) (posixpath)
path_join(a, b) ==
    IF Len(b) > 0 /\ b[1] = "/" THEN b
    ELSE IF a = <<>> \/ a[Len(a)] = "/" THEN a \o b
    ELSE a \o <<"/">> \o b

\* The components of a path: the maximal runs of characters other than
\* '/'; empty components (repeated, leading or trailing '/') do not count.
Comps(path) ==
    LET n == Len(path)
        starts == {i \in 1..n : path[i] # "/" /\ (i = 1 \/ path[i - 1] = "/")}
        EndOf(i) == CHOOSE j \in i..n :
                        /\ \A m \in i..j : path[m] # "/"
                        /\ (j = n \/ path[j + 1] = "/")
        Nth(k) == CHOOSE i \in starts : Cardinality({j \in starts : j < i}) = k - 1
    IN [k \in 1..Cardinality(starts) |-> SubSeq(path, Nth(k), EndOf(Nth(k)))]

Dot == <<".">>
DotDot == <<".", ".">>

\* the lexical normal form of an absolute path (os.path.normpath)
RECURSIVE NormComps(_, _)
NormComps(cs, acc) ==
    IF cs = <<>> THEN acc
    ELSE IF Head(cs) = Dot THEN NormComps(Tail(cs), acc)
    ELSE IF Head(cs) = DotDot
         THEN NormComps(Tail(cs), IF acc = <<>> THEN acc ELSE SubSeq(acc, 1, Len(acc) - 1))
    ELSE NormComps(Tail(cs), Append(acc, Head(cs)))

normpath(path) == NormComps(Comps(path), <<>>)

\* p is a (non-strict) prefix of q
IsPrefix(p, q) == Len(p) <= Len(q) /\ SubSeq(q, 1, Len(p)) = p

\* the directory itself and every ancestor of it
Ancestors(cs) == {SubSeq(cs, 1, k) : k \in 0..Len(cs)}

\* ------------------------------------------------------------------------
\* The filesystem
\* ------------------------------------------------------------------------

\* The kernel's walk of an absolute path for open(path, "wb"): every
\* component but the last must name an existing directory ('..' steps to
\* the parent), the last must not name a directory.
RECURSIVE Walk(_, _, _)
Walk(cs, cur, ds) ==
    IF cs = <<>> THEN [ok |-> TRUE, at |-> cur]
    ELSE IF Head(cs) = Dot THEN Walk(Tail(cs), cur, ds)
    ELSE IF Head(cs) = DotDot
         THEN Walk(Tail(cs), IF cur = <<>> THEN cur ELSE SubSeq(cur, 1, Len(cur) - 1), ds)
    ELSE IF Append(cur, Head(cs)) \in ds THEN Walk(Tail(cs), Append(cur, Head(cs)), ds)
    ELSE [ok |-> FALSE, at |-> cur]

\* the file open(path, "wb") would create or truncate, if it can
OpenTarget(path, ds) ==
    LET cs == Comps(path)
        n == Len(cs)
    IN IF n = 0 \/ path[Len(path)] = "/" \/ cs[n] \in {Dot, DotDot}
       THEN [ok |-> FALSE, at |-> <<>>]
       ELSE LET w == Walk(SubSeq(cs, 1, n - 1), <<>>, ds)
            IN IF w.ok /\ Append(w.at, cs[n]) \notin ds
               THEN [ok |-> TRUE, at |-> Append(w.at, cs[n])]
               ELSE [ok |-> FALSE, at |-> <<>>]

\* the files after path holds content
Put(fs, path, content) ==
    [q \in DOMAIN fs \cup {path} |-> IF q = path THEN content ELSE fs[q]]

\* what a write that fails part-way leaves behind: the file exists, cut short
Truncated(content) == [content EXCEPT !.kind = "partial", !.size = 0]


\* ------------------------------------------------------------------------
\* upload_image (main.py 78-146)
\* ------------------------------------------------------------------------

Reqs == {"r1", "r2"}

NoResponse ==
    [status_code |-> 0, status |-> FALSE, detail |-> "", url |-> <<>>,
     size |-> 0, file |-> <<>>]

\* raise HTTPException(status_code=code, detail=detail)
HTTPException(code, detail) ==
    [status_code |-> code, status |-> FALSE, detail |-> detail, url |-> <<>>,
     size |-> 0, file |-> <<>>]

\* an exception no handler catches: the framework answers 500
Unhandled == HTTPException(500, "Internal Server Error")

\* the dict returned at lines 141-146
Success(url, size, file) ==
    [status_code |-> 200, status |-> TRUE, detail |-> "", url |-> url,
     size |-> size, file |-> file]

\* faulty variant: the category is checked before the credential
Validation_CategoryFirst(service_name, category, api_key) ==
    IF Falsy(api_key)
    THEN [ok |-> FALSE, checks |-> <<1>>,
          response |-> HTTPException(403, "API key required")]
    ELSE IF service_name \notin DOMAIN ALLOWED_KEYS
    THEN [ok |-> FALSE, checks |-> <<1, 2>>,
          response |-> HTTPException(403, "Invalid service")]
    ELSE IF category \notin CategoriesOf(service_name)
    THEN [ok |-> FALSE, checks |-> <<1, 2, 4>>,
          response |-> HTTPException(400, "Invalid category")]
    ELSE IF api_key # ALLOWED_KEYS[service_name]
    THEN [ok |-> FALSE, checks |-> <<1, 2, 4, 3>>,
          response |-> HTTPException(403, "Unauthorized API key")]
    ELSE IF ~sanitize_ok(service_name) \/ ~sanitize_ok(category)
    THEN [ok |-> FALSE, checks |-> <<1, 2, 4, 3, 5>>,
          response |-> HTTPException(400, "Invalid folder name")]
    ELSE [ok |-> TRUE, checks |-> <<1, 2, 4, 3, 5>>, response |-> NoResponse]

\* faulty variant: the presence of the API key is not checked
Validation_NoPresenceCheck(service_name, category, api_key) ==
    IF service_name \notin DOMAIN ALLOWED_KEYS
    THEN [ok |-> FALSE, checks |-> <<2>>,
          response |-> HTTPException(403, "Invalid service")]
    ELSE IF api_key # ALLOWED_KEYS[service_name]
    THEN [ok |-> FALSE, checks |-> <<2, 3>>,
          response |-> HTTPException(403, "Unauthorized API key")]
    ELSE IF category \notin CategoriesOf(service_name)
    THEN [ok |-> FALSE, checks |-> <<2, 3, 4>>,
          response |-> HTTPException(400, "Invalid category")]
    ELSE IF ~sanitize_ok(service_name) \/ ~sanitize_ok(category)
    THEN [ok |-> FALSE, checks |-> <<2, 3, 4, 5>>,
          response |-> HTTPException(400, "Invalid folder name")]
    ELSE [ok |-> TRUE, checks |-> <<2, 3, 4, 5>>, response |-> NoResponse]

\* Lines 86-104.  `checks` lists the numbered checks (1 API key present,
\* 2 service valid, 3 API key equal, 4 category valid, 5 sanitize) in the
\* order they were evaluated.
Validation(service_name, category, api_key) ==
    IF Falsy(api_key)
    THEN [ok |-> FALSE, checks |-> <<1>>,
          response |-> HTTPException(403, "API key required")]
    ELSE IF service_name \notin DOMAIN ALLOWED_KEYS
    THEN [ok |-> FALSE, checks |-> <<1, 2>>,
          response |-> HTTPException(403, "Invalid service")]
    ELSE IF api_key # ALLOWED_KEYS[service_name]
    THEN [ok |-> FALSE, checks |-> <<1, 2, 3>>,
          response |-> HTTPException(403, "Unauthorized API key")]
    ELSE IF category \notin CategoriesOf(service_name)
    THEN [ok |-> FALSE, checks |-> <<1, 2, 3, 4>>,
          response |-> HTTPException(400, "Invalid category")]
    ELSE IF ~sanitize_ok(service_name) \/ ~sanitize_ok(category)
    THEN [ok |-> FALSE, checks |-> <<1, 2, 3, 4, 5>>,
          response |-> HTTPException(400, "Invalid folder name")]
    ELSE [ok |-> TRUE, checks |-> <<1, 2, 3, 4, 5>>, response |-> NoResponse]

\* the parameters and locals of a request that has not run yet
NoReq ==
    [service_name |-> <<>>, category |-> <<>>, api_key |-> None, checks |-> <<>>,
     year |-> 0, folder |-> <<>>, made |-> 0, existed |-> FALSE,
     filename |-> <<>>, original_bytes |-> NoBytes, token |-> "",
     ext |-> <<>>, encoder |-> FALSE, processed |-> NoBytes, final_ext |-> <<>>,
     unique |-> <<>>, filepath |-> <<>>, response |-> NoResponse]

\* faulty variant: the folder is made before the category is checked
Validate_MkdirEarly(r, ServiceIn, CategoryIn, KeyIn) ==
    /\ pc[r] = "start"
    /\ \E service_name \in ServiceIn, category \in CategoryIn, api_key \in KeyIn :
         LET v == Validation(service_name, category, api_key)
         IN /\ req' = [req EXCEPT ![r] =
                          [@ EXCEPT !.service_name = service_name,
                                    !.category = category,
                                    !.api_key = api_key,
                                    !.checks = v.checks,
                                    !.response = v.response]]
            /\ pc' = [pc EXCEPT ![r] = IF v.ok THEN "mkdir" ELSE "rejected"]
            /\ dirs' = IF Len(v.checks) >= 4
                       THEN dirs \cup Ancestors(Comps(Folder(service_name,
                                                   Now(clock).year, category)))
                       ELSE dirs
    /\ UNCHANGED <<ALLOWED_KEYS, CDN_URL_MAP, MAX_SIZE, clock, files,
                   seg, segOut, enc>>

\* Lines 86-104: the request arrives with its path parameters and header
Validate(r, ServiceIn, CategoryIn, KeyIn) ==
    /\ pc[r] = "start"
    /\ \E service_name \in ServiceIn, category \in CategoryIn, api_key \in KeyIn :
         LET v == Validation(service_name, category, api_key)
         IN /\ req' = [req EXCEPT ![r] =
                          [@ EXCEPT !.service_name = service_name,
                                    !.category = category,
                                    !.api_key = api_key,
                                    !.checks = v.checks,
                                    !.response = v.response]]
            /\ pc' = [pc EXCEPT ![r] = IF v.ok THEN "mkdir" ELSE "rejected"]
    /\ UNCHANGED <<ALLOWED_KEYS, CDN_URL_MAP, MAX_SIZE, clock, dirs, files,
                   seg, segOut, enc>>

\* the deepest ancestor of the directory cs that exists: how many of its
\* leading components name an existing directory
Existing(cs, ds) ==
    CHOOSE k \in 0..Len(cs) :
        /\ SubSeq(cs, 1, k) \in ds
        /\ \A j \in (k + 1)..Len(cs) : SubSeq(cs, 1, j) \notin ds

\* Lines 107-109, entering os.makedirs(folder, exist_ok=True): the year is
\* read from the clock, the folder is named, and makedirs walks up to the
\* deepest ancestor that exists.  It then calls mkdir once per component
\* below it, and always for the folder itself; `made` counts the leading
\* components it is done with.
MkDir(r) ==
    /\ pc[r] = "mkdir"
    /\ LET year == Now(clock).year
           folder == Folder(req[r].service_name, year, req[r].category)
           cs == Comps(folder)
           k == Existing(cs, dirs)
       IN /\ req' = [req EXCEPT ![r] =
                        [@ EXCEPT !.year = year, !.folder = folder,
                                  !.made = IF k = Len(cs) THEN k - 1 ELSE k]]
          /\ pc' = [pc EXCEPT ![r] = "makedirs"]
    /\ UNCHANGED <<ALLOWED_KEYS, CDN_URL_MAP, MAX_SIZE, clock, dirs, files,
                   seg, segOut, enc>>

\* faulty variant: exist_ok is not passed, so finding the folder already
\* there is an error
MkDirStep_NoExistOk(r) ==
    /\ pc[r] = "makedirs"
    /\ LET cs == Comps(req[r].folder)
           i == req[r].made + 1
           path == SubSeq(cs, 1, i)
       IN \/ /\ path \in dirs /\ i < Len(cs)
             /\ dirs' = dirs
             /\ req' = [req EXCEPT ![r] = [@ EXCEPT !.made = i, !.existed = TRUE]]
             /\ pc' = pc
          \/ /\ path \in dirs /\ i = Len(cs)
             /\ dirs' = dirs
             /\ req' = [req EXCEPT ![r] = [@ EXCEPT !.existed = TRUE,
                                                    !.response = Unhandled]]
             /\ pc' = [pc EXCEPT ![r] = "failed"]
          \/ /\ path \notin dirs
             /\ dirs' = dirs \cup {path}
             /\ req' = [req EXCEPT ![r] = [@ EXCEPT !.made = i]]
             /\ pc' = [pc EXCEPT ![r] = IF i = Len(cs) THEN "read" ELSE "makedirs"]
          \/ /\ path \notin dirs
             /\ dirs' = dirs
             /\ req' = [req EXCEPT ![r] = [@ EXCEPT !.response = Unhandled]]
             /\ pc' = [pc EXCEPT ![r] = "failed"]
    /\ UNCHANGED <<ALLOWED_KEYS, CDN_URL_MAP, MAX_SIZE, clock, files,
                   seg, segOut, enc>>

\* Line 109, inside os.makedirs(folder, exist_ok=True): one mkdir call.
\* The directory is made; or it is there already (another request made it),
\* which exist_ok=True takes for success; or mkdir fails with another
\* OSError, which ends the request and leaves what was made so far.
MkDirStep(r) ==
    /\ pc[r] = "makedirs"
    /\ LET cs == Comps(req[r].folder)
           i == req[r].made + 1
           path == SubSeq(cs, 1, i)
       IN \/ /\ path \in dirs
             /\ dirs' = dirs
             /\ req' = [req EXCEPT ![r] = [@ EXCEPT !.made = i, !.existed = TRUE]]
             /\ pc' = [pc EXCEPT ![r] = IF i = Len(cs) THEN "read" ELSE "makedirs"]
          \/ /\ path \notin dirs
             /\ dirs' = dirs \cup {path}
             /\ req' = [req EXCEPT ![r] = [@ EXCEPT !.made = i]]
             /\ pc' = [pc EXCEPT ![r] = IF i = Len(cs) THEN "read" ELSE "makedirs"]
          \/ /\ path \notin dirs
             /\ dirs' = dirs
             /\ req' = [req EXCEPT ![r] = [@ EXCEPT !.response = Unhandled]]
             /\ pc' = [pc EXCEPT ![r] = "failed"]
    /\ UNCHANGED <<ALLOWED_KEYS, CDN_URL_MAP, MAX_SIZE, clock, files,
                   seg, segOut, enc>>

\* Lines 112-128: read the upload, derive the extension, re-encode or pass
\* through, and name the file
Process(r, FilenameIn, PayloadIn, TokenIn) ==
    /\ pc[r] = "read"
    /\ \E filename \in FilenameIn, payload \in PayloadIn, token \in TokenIn :
         LET ext == Ext(filename)
             isImage == ext \in ImageExts
             c == compress_image(payload, MAX_SIZE)
             processed == IF isImage THEN c.result ELSE RawBytes(payload)
             final_ext == IF isImage THEN <<"j","p","g">> ELSE ext
             unique == Unique(strftime(Now(clock)), token, final_ext)
             filepath == path_join(req[r].folder, unique)
         IN IF isImage /\ c.pc = "raised"
            THEN /\ req' = [req EXCEPT ![r] =
                               [@ EXCEPT !.filename = filename,
                                         !.original_bytes = RawBytes(payload),
                                         !.ext = ext, !.encoder = TRUE,
                                         !.response = Unhandled]]
                 /\ pc' = [pc EXCEPT ![r] = "failed"]
            ELSE /\ req' = [req EXCEPT ![r] =
                               [@ EXCEPT !.filename = filename,
                                         !.original_bytes = RawBytes(payload),
                                         !.ext = ext, !.encoder = isImage,
                                         !.processed = processed,
                                         !.final_ext = final_ext,
                                         !.token = token,
                                         !.unique = unique,
                                         !.filepath = filepath]]
                 /\ pc' = [pc EXCEPT ![r] = "save"]
    /\ UNCHANGED <<ALLOWED_KEYS, CDN_URL_MAP, MAX_SIZE, clock, dirs, files,
                   seg, segOut, enc>>

\* faulty variant: the URL takes its year from the timestamp of the filename
Respond_YearOfName(l) ==
    LET cdn_base_url == CDN_URL_MAP[l.service_name]
    IN IF Falsy(cdn_base_url)
       THEN HTTPException(500, "CDN URL not configured")
       ELSE Success(cdn_base_url.s \o <<"/">> \o l.service_name \o <<"/">> \o
                        SubSeq(l.unique, 1, 4) \o <<"/">> \o l.category \o <<"/">> \o l.unique,
                    l.processed.size, l.unique)

\* lines 135-146: the response once the file is written
Respond(l) ==
    LET cdn_base_url == CDN_URL_MAP[l.service_name]
    IN IF Falsy(cdn_base_url)
       THEN HTTPException(500, "CDN URL not configured")
       ELSE Success(cdn_base_url.s \o <<"/">> \o l.service_name \o <<"/">> \o
                        ToStr(l.year) \o <<"/">> \o l.category \o <<"/">> \o l.unique,
                    l.processed.size, l.unique)

\* Lines 131-146: open(filepath, "wb"), write, and answer.  open may fail
\* and leave nothing; write may fail after open has created the file.
Save(r) ==
    /\ pc[r] = "save"
    /\ LET t == OpenTarget(req[r].filepath, dirs)
       IN \/ /\ files' = files
             /\ req' = [req EXCEPT ![r] = [@ EXCEPT !.response = Unhandled]]
             /\ pc' = [pc EXCEPT ![r] = "failed"]
          \/ /\ t.ok
             /\ files' = Put(files, t.at, Truncated(req[r].processed))
             /\ req' = [req EXCEPT ![r] = [@ EXCEPT !.response = Unhandled]]
             /\ pc' = [pc EXCEPT ![r] = "failed"]
          \/ /\ t.ok
             /\ files' = Put(files, t.at, req[r].processed)
             /\ LET response == Respond(req[r])
                IN /\ req' = [req EXCEPT ![r] = [@ EXCEPT !.response = response]]
                   /\ pc' = [pc EXCEPT ![r] = IF response.status THEN "done" ELSE "failed"]
    /\ UNCHANGED <<ALLOWED_KEYS, CDN_URL_MAP, MAX_SIZE, clock, dirs,
                   seg, segOut, enc>>

\* the wall clock advances by one second
Tick ==
    /\ clock < MaxClock
    /\ clock' = clock + 1
    /\ UNCHANGED <<ALLOWED_KEYS, CDN_URL_MAP, MAX_SIZE, dirs, files, pc, req,
                   seg, segOut, enc>>


\* ------------------------------------------------------------------------
\* Inputs and environments
\* ------------------------------------------------------------------------

nope == <<"n","o","p","e">>
video == <<"v","i","d","e","o">>

SizesConst(n) == [q \in LadderLevels |-> n]
SizesFitFrom(qfit) == [q \in LadderLevels |-> IF q <= qfit THEN KB ELSE KB + 1]

NotAnImage == Payload(FALSE, FALSE, "", 3, SizesConst(KB))
SmallImage == Payload(TRUE, TRUE, "RGB", 900, SizesConst(KB))
AlphaImage == Payload(TRUE, TRUE, "RGBA", 5000, SizesFitFrom(60))
HugeImage == Payload(TRUE, TRUE, "P", 9000, SizesConst(KB + 1))
\* a grey image with an alpha channel, as many PNGs are
GreyAlphaImage == Payload(TRUE, TRUE, "LA", 4000, SizesConst(KB))
\* images cut short after the header
CutImage == Payload(TRUE, FALSE, "RGB", 700, SizesConst(KB))
CutAlphaImage == Payload(TRUE, FALSE, "RGBA", 800, SizesConst(KB))

\* two requests in flight: few inputs each
ServiceFew == {ukaisyndrome, nope}
CategoryFew == {tryout, video}
KeyFew == {None, Str(KeyOne), Str(KeyBad)}
FilenameFew == {<<"a",".","p","d","f">>, <<"a",".","j","p","g">>}
PayloadFew == {NotAnImage, SmallImage}

\* one request alone: many inputs.  A path parameter is never empty and
\* never holds '/' (the route would not match).
ServiceMany == Services \cup {nope, DotDot, <<"u","k","a","i",".">>}
CategoryMany ==
    {tryout, materi, wajah, lembur, video, DotDot, <<"a"," ","b">>, <<"_","-">>}
KeyMany == {None, Str(<<>>), Str(KeyOne), Str(KeyTwo), Str(KeyBad)}
NamedFiles ==
    {<<"a",".","j","p","g">>, <<"b",".","J","P","G">>, <<"c",".","j","p","e","g">>,
     <<"d",".","P","n","g">>, <<"e",".","p","d","f">>, <<"F",".","P","D","F">>,
     <<"i","m","g">>, <<"x",".","t","a","r",".","g","z">>,
     <<"x",".","/",".",".","/",".",".","/","y">>,
     <<"x",".","É">>, <<"y",".","J","P","É","G">>, <<"z",".",DottedI>>,
     <<"ø",".","P","N","G">>}
FilenameMany == (SeqsUpTo({"a", ".", "/"}, MaxNameLen) \ {<<>>}) \cup NamedFiles
PayloadMany ==
    {NotAnImage, SmallImage, AlphaImage, HugeImage, GreyAlphaImage, CutImage,
     CutAlphaImage}

\* the environments: each variable set, unset (None) or set empty
KeyEnvFew == {[svc \in Services |-> IF svc = ukaisyndrome THEN Str(KeyOne) ELSE Str(KeyTwo)]}
UrlEnvFew ==
    {[svc \in Services |-> IF svc = ukaisyndrome THEN Str(UrlOne) ELSE Str(UrlTwo)],
     [svc \in Services |-> IF svc = ukaisyndrome THEN None ELSE Str(UrlTwo)]}
KeyEnvMany ==
    KeyEnvFew \cup
    {[svc \in Services |-> IF svc = ukaisyndrome THEN None ELSE Str(KeyTwo)],
     [svc \in Services |-> IF svc = ukaisyndrome THEN Str(KeyOne) ELSE Str(<<>>)]}
UrlEnvMany ==
    UrlEnvFew \cup
    {[svc \in Services |-> IF svc = ukaisyndrome THEN Str(UrlOne) ELSE Str(<<>>)]}

\* ------------------------------------------------------------------------
\* sanitize_segment and compress_image on their own
\* ------------------------------------------------------------------------

SegAlphabet == {"a", "Z", "7", "_", "-", "/", ".", " ", "!", "é", "²", SharpS}

Segments == SeqsUpTo(SegAlphabet, MaxSegLen) \cup Services \cup {tryout, lembur}

SegIdle == [state |-> "idle", result |-> <<>>]

\* one call of sanitize_segment(seg)
SanitizeCall ==
    /\ segOut.state = "pending"
    /\ LET o == sanitize_segment(seg)
       IN segOut' = IF o.raised THEN [state |-> "raised", result |-> <<>>]
                    ELSE [state |-> "returned", result |-> o.result]
    /\ UNCHANGED <<ALLOWED_KEYS, CDN_URL_MAP, MAX_SIZE, clock, dirs, files, pc, req,
                   seg, enc>>

EncPayloads ==
    {NotAnImage, GreyAlphaImage, CutImage, CutAlphaImage} \cup
    {Payload(TRUE, TRUE, m, 5000, s) : m \in {"RGBA", "L"}, s \in [LadderLevels -> EncSizes]}

\* compress_image is entered: lines 56-61
EncCall ==
    /\ enc.pc = "call"
    /\ enc' = EncStart(enc)
    /\ UNCHANGED <<ALLOWED_KEYS, CDN_URL_MAP, MAX_SIZE, clock, dirs, files, pc, req,
                   seg, segOut>>

\* one test of the loop condition of compress_image: lines 62-71
EncLoop ==
    /\ enc.pc = "loop"
    /\ enc' = EncStep(enc, MAX_SIZE)
    /\ UNCHANGED <<ALLOWED_KEYS, CDN_URL_MAP, MAX_SIZE, clock, dirs, files, pc, req,
                   seg, segOut>>

\* ------------------------------------------------------------------------
\* Specifications
\* ------------------------------------------------------------------------

\* the state once the module is loaded: BASE_DIR exists, nothing is stored
InitWith(KeyEnv, UrlEnv, BudgetEnv) ==
    /\ ALLOWED_KEYS \in KeyEnv
    /\ CDN_URL_MAP \in UrlEnv
    /\ MAX_SIZE \in BudgetEnv
    /\ clock = 0
    /\ dirs = Ancestors(Comps(BASE_DIR))
    /\ files = [q \in {} |-> NoBytes]
    /\ pc = [r \in Reqs |-> "start"]
    /\ req = [r \in Reqs |-> NoReq]
    /\ seg = <<>>
    /\ segOut = SegIdle
    /\ enc = [EncIdle(NotAnImage) EXCEPT !.pc = "idle"]

\* two requests served concurrently while the clock runs
Init == InitWith(KeyEnvFew, UrlEnvFew, {KB})

Next ==
    \/ \E r \in Reqs :
        \/ Validate(r, ServiceFew, CategoryFew, KeyFew)
        \/ MkDir(r)
        \/ MkDirStep(r)
        \/ Process(r, FilenameFew, PayloadFew, Tokens)
        \/ Save(r)
    \/ Tick

Spec == Init /\ [][Next]_vars

\* one request, over many inputs and environments
InitOne == InitWith(KeyEnvMany, UrlEnvMany, Budgets)

NextOne ==
    \/ Validate("r1", ServiceMany, CategoryMany, KeyMany)
    \/ MkDir("r1")
    \/ MkDirStep("r1")
    \/ Process("r1", FilenameMany, PayloadMany, {"uuid-A"})
    \/ Save("r1")

SpecOne == InitOne /\ [][NextOne]_vars

\* sanitize_segment called once on any segment
InitSan ==
    /\ ALLOWED_KEYS \in KeyEnvFew
    /\ CDN_URL_MAP \in {CHOOSE u \in UrlEnvFew : TRUE}
    /\ MAX_SIZE = KB
    /\ clock = 0
    /\ dirs = Ancestors(Comps(BASE_DIR))
    /\ files = [q \in {} |-> NoBytes]
    /\ pc = [r \in Reqs |-> "start"]
    /\ req = [r \in Reqs |-> NoReq]
    /\ seg \in Segments
    /\ segOut = [state |-> "pending", result |-> <<>>]
    /\ enc = [EncIdle(NotAnImage) EXCEPT !.pc = "idle"]

SpecSan == InitSan /\ [][SanitizeCall]_vars

\* compress_image called once on any payload under any budget; a call that
\* has started runs on
InitEnc ==
    /\ ALLOWED_KEYS \in KeyEnvFew
    /\ CDN_URL_MAP \in {CHOOSE u \in UrlEnvFew : TRUE}
    /\ MAX_SIZE \in Budgets
    /\ clock = 0
    /\ dirs = Ancestors(Comps(BASE_DIR))
    /\ files = [q \in {} |-> NoBytes]
    /\ pc = [r \in Reqs |-> "start"]
    /\ req = [r \in Reqs |-> NoReq]
    /\ seg = <<>>
    /\ segOut = SegIdle
    /\ enc \in {EncIdle(p) : p \in EncPayloads}

NextEnc == EncCall \/ EncLoop

SpecEnc == InitEnc /\ [][NextEnc]_vars /\ WF_vars(NextEnc)


\* ------------------------------------------------------------------------
\* Properties
\* ------------------------------------------------------------------------

\* the least element of a non-empty set of integers
Least(S) == CHOOSE m \in S : \A n \in S : m <= n

\* a request that has been through validation
Validated(r) == pc[r] # "start"

\* check i (1 credential presence, 2 tenant validity, 3 credential match,
\* 4 category validity, 5 segment sanitization) fails for the request
FailsCheck(i, l) ==
    CASE i = 1 -> l.api_key.isNone \/ Len(l.api_key.s) = 0
      [] i = 2 -> l.service_name \notin Services
      [] i = 3 -> l.service_name \in Services /\ l.api_key # ALLOWED_KEYS[l.service_name]
      [] i = 4 -> \/ l.service_name \notin Services
                  \/ l.category \notin ALLOWED_CATEGORIES[l.service_name]
      [] i = 5 -> \E v \in {l.service_name, l.category} :
                     \/ \E k \in 1..Len(v) : ~(IsAlnumChar(v[k]) \/ v[k] \in {"_", "-"})
                     \/ \A k \in 1..Len(v) : v[k] \in {"_", "-"}

\* the error each check answers with
ErrorOfCheck(i) ==
    CASE i = 1 -> HTTPException(403, "API key required")
      [] i = 2 -> HTTPException(403, "Invalid service")
      [] i = 3 -> HTTPException(403, "Unauthorized API key")
      [] i = 4 -> HTTPException(400, "Invalid category")
      [] i = 5 -> HTTPException(400, "Invalid folder name")

\* C1: upload_image evaluates its checks in the order credential presence,
\* tenant validity, credential match, category validity, sanitization; a
\* request failing one or more checks is answered with the error of the
\* earliest failing one and no later check is evaluated; a request failing
\* none passes all five.
C1_ValidationOrder ==
    \A r \in Reqs :
        Validated(r) =>
            LET l == req[r]
                failing == {i \in 1..5 : FailsCheck(i, l)}
            IN IF failing = {}
               THEN pc[r] # "rejected" /\ l.checks = <<1, 2, 3, 4, 5>>
               ELSE /\ pc[r] = "rejected"
                    /\ l.response = ErrorOfCheck(Least(failing))
                    /\ l.checks = [i \in 1..Least(failing) |-> i]

\* a request with the right credential whose category is neither
\* whitelisted nor a valid segment is answered InvalidCategory
C1_Witness ==
    \E r \in Reqs :
        /\ pc[r] = "rejected"
        /\ FailsCheck(4, req[r]) /\ FailsCheck(5, req[r])
        /\ ~FailsCheck(1, req[r]) /\ ~FailsCheck(2, req[r]) /\ ~FailsCheck(3, req[r])
        /\ req[r].response.detail = "Invalid category"

\* C2: the step that rejects a request (MissingCredential, UnknownTenant,
\* InvalidCredential, InvalidCategory, InvalidSegment) is the request's
\* first and last step and leaves the directories and the files as they were.
C2_RejectionLeavesFilesystem ==
    [][\A r \in Reqs :
          /\ (pc[r] # "rejected" /\ pc'[r] = "rejected") =>
                 /\ pc[r] = "start"
                 /\ req'[r].response.status_code \in {400, 403}
                 /\ dirs' = dirs
                 /\ files' = files
          /\ pc[r] = "rejected" => (pc'[r] = "rejected" /\ req'[r] = req[r])]_vars

\* a request with a wrong credential has been rejected and the directory
\* it named does not exist
C2_Witness ==
    \E r \in Reqs :
        /\ pc[r] = "rejected"
        /\ req[r].response.detail = "Unauthorized API key"
        /\ Comps(Folder(req[r].service_name, Now(clock).year, req[r].category))
               \notin dirs

\* C3: a request that ends in an error leaves no new file behind
\* (one request, on a filesystem that held no file).
C3_NoFileAfterError ==
    pc["r1"] \in {"rejected", "failed"} => DOMAIN files = {}

\* C4: an upload with a re-encodable extension whose payload is no image
\* is carried on with its raw bytes, unmodified.
C4_DecodeErrorFallsBack ==
    \A r \in Reqs :
        (req[r].ext \in ImageExts /\ req[r].original_bytes.kind = "raw"
            /\ ~req[r].original_bytes.src.decodable)
        => /\ req[r].processed = req[r].original_bytes
           /\ req[r].response # Unhandled

\* C5: a request naming an unknown tenant and a request naming a known
\* tenant with a wrong credential (both with a non-empty credential) get
\* the same answer.
C5_TenantProbeIndistinguishable ==
    \A r1, r2 \in Reqs :
        (/\ Validated(r1) /\ Validated(r2)
         /\ ~FailsCheck(1, req[r1]) /\ FailsCheck(2, req[r1])
         /\ ~FailsCheck(1, req[r2]) /\ FailsCheck(3, req[r2]))
        => req[r1].response = req[r2].response


\* the quality ladder
QualityLadder == <<85, 80, 75, 70, 65, 60, 55, 50, 45>>

\* the encoding of payload p at quality q
EncodingAt(p, q) ==
    [kind |-> "jpeg", src |-> p,
     mode |-> IF p.mode \in {"RGBA", "P"} THEN "RGB" ELSE p.mode,
     quality |-> q, size |-> p.sizes[q]]

EncEnded == enc.pc \in {"returned", "raised"}

\* C6: for every decodable image (identified, and its pixel data whole),
\* whatever its mode, compress_image returns the encoding at the first
\* quality of the ladder 85, 80, ..., 45 whose size is within the budget,
\* and the encoding at quality 45 when none is; it does not fail.
C6_FirstFittingQuality ==
    (EncEnded /\ enc.image_bytes.decodable /\ enc.image_bytes.intact) =>
        LET p == enc.image_bytes
            fitting == {k \in 1..Len(QualityLadder) : p.sizes[QualityLadder[k]] <= MAX_SIZE}
            q == IF fitting = {} THEN 45 ELSE QualityLadder[Least(fitting)]
        IN enc.pc = "returned" /\ enc.result = EncodingAt(p, q)

\* C7: the loop of compress_image ends, after at most 10 encodings, and
\* the qualities it encodes at are a prefix of 85, 80, ..., 45.
C7_LadderTerminates ==
    /\ [](/\ Len(enc.tried) <= 10
          /\ Len(enc.tried) <= Len(QualityLadder)
          /\ enc.tried = SubSeq(QualityLadder, 1, Len(enc.tried)))
    /\ <>EncEnded

\* the whole ladder has been walked
C7_Witness ==
    /\ enc.pc = "returned"
    /\ enc.tried = QualityLadder

\* the request has named its file
Named(r) == req[r].filepath # <<>>

\* the directory <root>/<tenantId>/<year>/<category> of a request
DirOf(l) == Comps(BASE_DIR) \o <<l.service_name, ToStr(l.year), l.category>>

HasSlash(s) == \E i \in 1..Len(s) : s[i] = "/"

\* C8: whatever the filename hint holds, the path a request writes to
\* resolves, lexically and in the filesystem, to a place strictly beneath
\* <root>/<tenantId>/ and inside <year>/<category>/; a stored file lies
\* directly in that directory.
C8_PathBeneathTenantRoot ==
    /\ \A r \in Reqs :
        Named(r) =>
            LET l == req[r]
                np == normpath(l.filepath)
            IN /\ l.service_name \in Services
               /\ IsPrefix(Comps(BASE_DIR) \o <<l.service_name>>, np)
               /\ IsPrefix(DirOf(l), np)
               /\ Len(np) > Len(DirOf(l))
               /\ OpenTarget(l.filepath, dirs).ok =>
                      OpenTarget(l.filepath, dirs).at = Append(DirOf(l), Comps(l.unique)[1])
    /\ \A q \in DOMAIN files :
           \E r \in Reqs : Named(r) /\ SubSeq(q, 1, Len(q) - 1) = DirOf(req[r])

\* a request whose filename hint holds '/' and '..' has named its file
C8_Witness ==
    \E r \in Reqs :
        /\ Named(r)
        /\ HasSlash(req[r].filename)
        /\ \E i \in 1..(Len(req[r].filename) - 1) :
               req[r].filename[i] = "." /\ req[r].filename[i + 1] = "."
        /\ HasSlash(req[r].ext)

\* a letter or a numeric character, of ASCII or not
LetterOrDigit(c) ==
    \/ c \in Range(LowerLetters) \cup Range(UpperLetters) \cup Range(Digits)
    \/ c \in {"é", "ø", "É", "Ø", "ß", "U+0130"}
    \/ c \in {"²", "½"}

\* the segment has a character other than a letter, a digit, '_' or '-'
HasForbiddenChar(s) ==
    \E i \in 1..Len(s) : ~LetterOrDigit(s[i]) /\ s[i] \notin {"_", "-"}

HasLetterOrDigit(s) == \E i \in 1..Len(s) : LetterOrDigit(s[i])

\* C9 as stated: every non-empty segment composed solely of letters,
\* digits, '_' and '-' is accepted (also one made up only of '_' and '-'),
\* every segment with another character is rejected.
C9_AsStated ==
    segOut.state \notin {"idle", "pending"} =>
        /\ HasForbiddenChar(seg) => segOut.state = "raised"
        /\ (Len(seg) > 0 /\ ~HasForbiddenChar(seg)) =>
               (segOut.state = "returned" /\ segOut.result = seg)

\* C9: sanitize_segment rejects every segment with a character other than
\* a letter, a digit, '_' or '-', and accepts, returning it unchanged,
\* exactly the segments of such characters that hold at least one letter
\* or digit; letters and digits are those of Unicode (as 'é' and the
\* numerics superscript two and one half), not of ASCII alone.
C9_SanitizeSegment ==
    segOut.state \notin {"idle", "pending"} =>
        /\ HasForbiddenChar(seg) => segOut.state = "raised"
        /\ segOut.state = "returned" <=> (~HasForbiddenChar(seg) /\ HasLetterOrDigit(seg))
        /\ segOut.state = "returned" => segOut.result = seg

\* a segment made up of '_' and '-' only has been rejected
C9_Witness ==
    /\ segOut.state = "raised"
    /\ Len(seg) > 0
    /\ \A i \in 1..Len(seg) : seg[i] \in {"_", "-"}

\* the request has read its upload
HasRead(r) == req[r].original_bytes.kind = "raw"

\* what follows the last '.' of the filename, as written
WrittenExt(filename) ==
    LET k == CHOOSE i \in 1..Len(filename) :
                 filename[i] = "." /\ \A j \in (i + 1)..Len(filename) : filename[j] # "."
    IN SubSeq(filename, k + 1, Len(filename))

\* s ends with suffix
EndsWith(s, suffix) ==
    Len(suffix) <= Len(s) /\ SubSeq(s, Len(s) - Len(suffix) + 1, Len(s)) = suffix

\* C10 as stated: the encoder is applied exactly when the filename has
\* one of the extensions jpg, jpeg, png (in any case); any other upload
\* keeps its bytes and its extension as written.
C10_AsStated ==
    \A r \in Reqs :
        HasRead(r) =>
            LET l == req[r]
                recognised == /\ HasDot(l.filename)
                              /\ lower(WrittenExt(l.filename)) \in ImageExts
            IN /\ l.encoder <=> recognised
               /\ (~recognised /\ HasDot(l.filename)) =>
                      /\ l.processed = l.original_bytes
                      /\ EndsWith(l.unique, <<".">> \o WrittenExt(l.filename))

\* C10: the encoder is applied exactly when the derived extension (the
\* lower-cased text after the last '.', or jpg for a filename without '.')
\* is jpg, jpeg or png; any other upload keeps its bytes, its generated
\* filename ends in '.' and that lower-cased extension, and once stored
\* and answered the file holds the input and the size returned is the
\* input's length.
C10_EncoderAppliedByExtension ==
    \A r \in Reqs :
        HasRead(r) =>
            LET l == req[r]
                derived == IF HasDot(l.filename)
                           THEN lower(WrittenExt(l.filename))
                           ELSE <<"j","p","g">>
            IN /\ l.encoder <=> derived \in {<<"j","p","g">>, <<"j","p","e","g">>, <<"p","n","g">>}
               /\ ~l.encoder =>
                      /\ l.processed = l.original_bytes
                      /\ EndsWith(l.unique, <<".">> \o derived)
                      /\ pc[r] = "done" =>
                             /\ Comps(l.filepath) \in DOMAIN files
                             /\ files[Comps(l.filepath)].kind = "raw"
                             /\ files[Comps(l.filepath)].src = l.original_bytes.src
                             /\ l.response.size = l.original_bytes.src.len
                             /\ l.response.file = l.unique

\* F.PDF has been stored unmodified as ....pdf and answered
C10_Witness ==
    \E r \in Reqs :
        /\ pc[r] = "done"
        /\ req[r].filename = <<"F",".","P","D","F">>
        /\ req[r].final_ext = <<"p","d","f">>
        /\ ~req[r].encoder
        /\ req[r].response.size = req[r].original_bytes.size


\* what is left of a path once the leading prefix is taken off
After(prefix, path) == SubSeq(path, Len(prefix) + 1, Len(path))

\* C11: a successful upload is stored at
\* <root>/<tenantId>/<year>/<category>/<filename> and its URL is
\* <tenantPublicBaseUrl>/<tenantId>/<year>/<category>/<filename>, with the
\* same four components; the filename answered is that filename.
C11_UrlMirrorsPath ==
    \A r \in Reqs :
        pc[r] = "done" =>
            LET l == req[r]
                base == CDN_URL_MAP[l.service_name]
            IN /\ l.response.status
               /\ ~base.isNone
               /\ Comps(l.filepath) =
                      Comps(BASE_DIR) \o <<l.service_name, ToStr(l.year), l.category, l.unique>>
               /\ Comps(l.filepath) \in DOMAIN files
               /\ IsPrefix(BASE_DIR, l.filepath)
               /\ IsPrefix(base.s, l.response.url)
               /\ After(base.s, l.response.url) = After(BASE_DIR, l.filepath)
               /\ l.response.file = l.unique

\* an upload whose folder was made in 2026 and whose file was named in
\* 2027 has been answered
C11_Witness ==
    \E r \in Reqs :
        /\ pc[r] = "done"
        /\ req[r].year = 2026
        /\ SubSeq(req[r].unique, 1, 4) = <<"2","0","2","7">>
        /\ Len(req[r].response.url) > 0


\* the timestamp at the head of a generated filename
StampOf(l) == SubSeq(l.unique, 1, Len(strftime(Now(0))))

\* two requests for the same tenant and category named their files at the
\* same instant
SameSlot(r1, r2) ==
    /\ Named(r1) /\ Named(r2)
    /\ req[r1].service_name = req[r2].service_name
    /\ req[r1].category = req[r2].category
    /\ req[r1].year = req[r2].year
    /\ StampOf(req[r1]) = StampOf(req[r2])

\* C12 as stated: two requests for the same tenant, category and instant
\* never have the same filename, so never write to the same path.
C12_AsStated ==
    \A r1, r2 \in Reqs :
        (r1 # r2 /\ SameSlot(r1, r2)) =>
            /\ req[r1].unique # req[r2].unique
            /\ req[r1].filepath # req[r2].filepath

\* C12: two requests whose uuid tokens differ have different filenames
\* and write to different paths, whatever else they share, and once both
\* are answered each file holds the bytes of its own request; two requests
\* name the same path only with the same token.
C12_DistinctTokensDistinctPaths ==
    \A r1, r2 \in Reqs :
        (r1 # r2 /\ Named(r1) /\ Named(r2)) =>
            /\ req[r1].token # req[r2].token =>
                   /\ req[r1].unique # req[r2].unique
                   /\ req[r1].filepath # req[r2].filepath
                   /\ Comps(req[r1].filepath) # Comps(req[r2].filepath)
                   /\ (pc[r1] = "done" /\ pc[r2] = "done") =>
                          /\ files[Comps(req[r1].filepath)] = req[r1].processed
                          /\ files[Comps(req[r2].filepath)] = req[r2].processed
            /\ req[r1].filepath = req[r2].filepath =>
                   req[r1].token = req[r2].token

\* two uploads for the same tenant, category, instant and extension, with
\* different tokens, have both been stored and answered
C12_Witness ==
    \E r1, r2 \in Reqs :
        /\ r1 # r2 /\ SameSlot(r1, r2)
        /\ pc[r1] = "done" /\ pc[r2] = "done"
        /\ req[r1].final_ext = req[r2].final_ext
        /\ req[r1].token # req[r2].token
        /\ Comps(req[r1].filepath) \in DOMAIN files
        /\ Comps(req[r2].filepath) \in DOMAIN files


\* request r takes a step
Steps(r) == pc'[r] # pc[r] \/ req'[r] # req[r]

\* the directory the next mkdir of r's makedirs is for
NextDir(r) == SubSeq(Comps(req[r].folder), 1, req[r].made + 1)

\* C13: inside os.makedirs a request that finds a directory already there
\* (made by the other request, in whatever order the two interleave) takes
\* that for success: it changes nothing, does not fail and goes on; and a
\* request is past makedirs only when its folder exists.
C13_MakedirsToleratesExisting ==
    [][\A r \in Reqs :
          /\ (pc[r] = "makedirs" /\ Steps(r) /\ NextDir(r) \in dirs) =>
                 /\ pc'[r] \in {"makedirs", "read"}
                 /\ req'[r].made = req[r].made + 1
                 /\ req'[r].response = NoResponse
                 /\ dirs' = dirs
          /\ pc'[r] \in {"read", "save", "done"} =>
                 Comps(req'[r].folder) \in dirs']_vars

\* two requests for the same folder, each of which found a directory made
\* by the other while inside makedirs, have both stored their file
C13_Witness ==
    \E r1, r2 \in Reqs :
        /\ r1 # r2
        /\ pc[r1] = "done" /\ pc[r2] = "done"
        /\ req[r1].folder = req[r2].folder
        /\ req[r1].existed /\ req[r2].existed
        /\ Comps(req[r1].filepath) \in DOMAIN files
        /\ Comps(req[r2].filepath) \in DOMAIN files
        /\ Comps(req[r1].filepath) # Comps(req[r2].filepath)


\* C14: the year of a stored asset's directory is the year of the
\* timestamp in its filename, also when the clock advances during the
\* request.
C14_YearMatchesTimestamp ==
    \A r \in Reqs :
        Named(r) => ToStr(req[r].year) = SubSeq(req[r].unique, 1, 4)

\* the request is past validation
Accepted(r) == pc[r] \notin {"start", "rejected"}

\* C15: with the configured tenants and whitelists InvalidSegment is never
\* answered: a tenant id and a category that pass the tenant and whitelist
\* checks pass sanitize_segment, and the folder of an accepted request is
\* built from members of the configured tables.
C15_InvalidSegmentUnreachable ==
    \A r \in Reqs :
        Validated(r) =>
            LET l == req[r]
            IN /\ l.response.detail # "Invalid folder name"
               /\ (l.service_name \in Services
                      /\ l.category \in ALLOWED_CATEGORIES[l.service_name]) =>
                      /\ ~sanitize_segment(l.service_name).raised
                      /\ ~sanitize_segment(l.category).raised
                      /\ sanitize_segment(l.service_name).result = l.service_name
                      /\ sanitize_segment(l.category).result = l.category
               /\ Accepted(r) =>
                      /\ l.service_name \in Services
                      /\ l.category \in ALLOWED_CATEGORIES[l.service_name]
                      /\ l.checks = <<1, 2, 3, 4, 5>>
                      /\ l.folder # <<>> =>
                             Comps(l.folder) =
                                 Comps(BASE_DIR) \o <<l.service_name, ToStr(l.year), l.category>>

\* a request for the tenant whose id holds '-' has passed all five checks
\* and made its folder
C15_Witness ==
    \E r \in Reqs :
        /\ Accepted(r)
        /\ req[r].service_name = absensi_berkah
        /\ req[r].checks = <<1, 2, 3, 4, 5>>
        /\ Comps(req[r].folder) \in dirs

\* C16: a request naming a tenant whose credential is not configured
\* (None or empty) is rejected with 403 whatever credential it carries,
\* before it has named a folder or touched the filesystem.
C16_UnconfiguredTenantRejected ==
    \A r \in Reqs :
        (Validated(r) /\ req[r].service_name \in Services
            /\ (ALLOWED_KEYS[req[r].service_name].isNone
                   \/ ALLOWED_KEYS[req[r].service_name].s = <<>>)) =>
            /\ pc[r] = "rejected"
            /\ req[r].response.status_code = 403
            /\ req[r].folder = <<>> /\ req[r].filepath = <<>>
            /\ (\A q \in Reqs \ {r} : pc[q] = "start") =>
                   (dirs = Ancestors(Comps(BASE_DIR)) /\ DOMAIN files = {})

\* a caller that sends exactly the unconfigured credential (none, or an
\* empty one) has been rejected
C16_Witness ==
    \E r \in Reqs :
        /\ pc[r] = "rejected"
        /\ req[r].service_name \in Services
        /\ Falsy(ALLOWED_KEYS[req[r].service_name])
        /\ req[r].api_key = ALLOWED_KEYS[req[r].service_name]
        /\ req[r].response.detail = "API key required"

====
